---------------------------- MODULE Spec2Model ----------------------------
(***************************************************************************)
(* A model of databricks/sqlalchemy/_parse.py: the helpers that parse the  *)
(* output of DESCRIBE TABLE EXTENDED and the messages of DBR exceptions.   *)
(*                                                                         *)
(* A Python str is a sequence of one-character strings; the backtick,      *)
(* which a TLA+ string cannot hold, is the token Backtick.  A Python value *)
(* that a function returns is a tagged record (PyNone, PyStr, PyList,      *)
(* PyDict, PyBool); a call ends in Return(value) or in Raise(exception).   *)
(* Every function of the file is pure: an action of the model is one call  *)
(* of one function on inputs drawn from bounded sets.                      *)
(***************************************************************************)
EXTENDS Integers, Sequences, FiniteSets, TLC

VARIABLES
    pc,            \* "start": nothing called yet; "loop": inside the row loop; "done"
    fn,            \* the function that was called
    form,          \* how the input line was written (what the line is meant to say)
    line,          \* the str argument: input_str, constraint string
    name,          \* fk_name or pk_name
    schema_name,   \* build_fk_dict's schema_name: PyNone or PyStr
    dte_output,    \* the rows of DESCRIBE TABLE EXTENDED
    match,         \* match_dte_rows_by_value's match
    idx,           \* position of the row loop in dte_output
    output_rows,   \* match_dte_rows_by_value's output_rows
    message,       \* _match_table_not_found_string's message
    ret            \* how the call ended

vars == <<pc, fn, form, line, name, schema_name, dte_output, match, idx,
          output_rows, message, ret>>

---------------------------------------------------------------------------
(* Bounds of the model *)

\* longest free-form input string
MaxLen == 6
\* most columns in one column list of a generated constraint line
MaxCols == 2
\* most rows of DESCRIBE TABLE EXTENDED output
MaxRows == 3
\* most fragments an error message is put together from
MaxChunks == 3

---------------------------------------------------------------------------
(* Python values and call outcomes *)

PyNone == [t |-> "None"]
PyStr(s) == [t |-> "str", v |-> s]
PyList(l) == [t |-> "list", v |-> l]
PyDict(d) == [t |-> "dict", v |-> d]
PyBool(b) == [t |-> "bool", v |-> b]

Pending == [kind |-> "pending"]
Return(value) == [kind |-> "return", val |-> value]
Raise(exception) == [kind |-> "raise", exc |-> exception]

\* Python truthiness of an Optional[str]: None and "" are falsy
Truthy(x) == x.t = "str" /\ x.v # <<>>

---------------------------------------------------------------------------
(* Character classes of the regular expressions *)

\* the character U+0060
Backtick == "<backtick>"

UpperChars == {"A", "B", "C", "D", "E", "F", "G", "H", "I", "J", "K", "L", "M",
               "N", "O", "P", "Q", "R", "S", "T", "U", "V", "W", "X", "Y", "Z"}
LowerChars == {"a", "b", "c", "d", "e", "f", "g", "h", "i", "j", "k", "l", "m",
               "n", "o", "p", "q", "r", "s", "t", "u", "v", "w", "x", "y", "z"}
DigitChars == {"0", "1", "2", "3", "4", "5", "6", "7", "8", "9"}

\* [A-Za-z0-9_]
IsWord(c) == c \in UpperChars \cup LowerChars \cup DigitChars \cup {"_"}
\* the whitespace class
IsSpace(c) == c \in {" ", "\n", "\t", "\r"}
\* . (anything but a line break)
IsDot(c) == c # "\n"
\* the class of the group pattern: backtick, [A-Za-z0-9_], comma, whitespace
IsGroupChar(c) == c = Backtick \/ IsWord(c) \/ c = "," \/ IsSpace(c)

\* length of the longest run of characters of a class starting at s[i]
RECURSIVE WordRun(_, _)
WordRun(s, i) ==
    IF i <= Len(s) /\ IsWord(s[i]) THEN 1 + WordRun(s, i + 1) ELSE 0

RECURSIVE SpaceRun(_, _)
SpaceRun(s, i) ==
    IF i <= Len(s) /\ IsSpace(s[i]) THEN 1 + SpaceRun(s, i + 1) ELSE 0

RECURSIVE GroupRun(_, _)
GroupRun(s, i) ==
    IF i <= Len(s) /\ IsGroupChar(s[i]) THEN 1 + GroupRun(s, i + 1) ELSE 0

\* sub in s
StrContains(sub, s) ==
    \E k \in 0..(Len(s) - Len(sub)) : SubSeq(s, k + 1, k + Len(sub)) = sub

\* whether s holds lit at position i
LiteralAt(s, i, lit) ==
    i + Len(lit) - 1 <= Len(s) /\ SubSeq(s, i, i + Len(lit) - 1) = lit

---------------------------------------------------------------------------
(* extract_identifiers_from_string: findall of the pattern                 *)
(* backtick, one or more of [A-Za-z0-9_] (captured), backtick              *)

\* the pattern written without its closing backtick
IdentMatchNoClose(s, i) ==
    IF s[i] = Backtick /\ WordRun(s, i + 1) >= 1 THEN i + WordRun(s, i + 1) + 1 ELSE 0

\* The pattern matched at s[i]: the index of the closing backtick, or 0 when
\* the pattern does not match there.  The + is greedy; giving a character back
\* leaves a word character where the backtick must be, so only the full run
\* can match.
IdentMatchEnd(s, i) ==
    IF s[i] # Backtick THEN 0
    ELSE LET n == WordRun(s, i + 1)
         IN  IF n >= 1 /\ i + n + 1 <= Len(s) /\ s[i + n + 1] = Backtick
             THEN i + n + 1
             ELSE 0

\* findall scans left to right; after a match it resumes behind the match
RECURSIVE IdentFindall(_, _)
IdentFindall(s, i) ==
    IF i > Len(s) THEN <<>>
    ELSE LET e == IdentMatchEnd(s, i)
         IN  IF e > 0
             THEN <<SubSeq(s, i + 1, e - 1)>> \o IdentFindall(s, e + 1)
             ELSE IdentFindall(s, i + 1)

extract_identifiers_from_string(input_str) == IdentFindall(input_str, 1)

---------------------------------------------------------------------------
(* extract_identifier_groups_from_string: findall of the pattern           *)
(* open parenthesis, any number of backtick, [A-Za-z0-9_], comma or        *)
(* whitespace, close parenthesis                                           *)

\* The pattern matched at s[i]: the index of the closing parenthesis, or 0.
\* The class holds no parenthesis, so only the full run can be followed by it.
GroupMatchEnd(s, i) ==
    IF s[i] # "(" THEN 0
    ELSE LET n == GroupRun(s, i + 1)
         IN  IF i + n + 1 <= Len(s) /\ s[i + n + 1] = ")" THEN i + n + 1 ELSE 0

RECURSIVE GroupFindall(_, _)
GroupFindall(s, i) ==
    IF i > Len(s) THEN <<>>
    ELSE LET e == GroupMatchEnd(s, i)
         IN  IF e > 0
             THEN <<SubSeq(s, i, e)>> \o GroupFindall(s, e + 1)
             ELSE GroupFindall(s, i + 1)

\* the groups from right to left
RECURSIVE Reverse(_)
Reverse(q) == IF q = <<>> THEN <<>> ELSE Reverse(Tail(q)) \o <<Head(q)>>

extract_identifier_groups_reversed(input_str) == Reverse(GroupFindall(input_str, 1))

extract_identifier_groups_from_string(input_str) == GroupFindall(input_str, 1)

---------------------------------------------------------------------------
(* extract_three_level_identifier_from_constraint_string                   *)

REFERENCES_KW == <<"R", "E", "F", "E", "R", "E", "N", "C", "E", "S">>

NoMatch == [ok |-> FALSE]

\* the tail of the pattern, whitespace* then an open parenthesis, matched at s[q]
RefTailMatches(s, q) ==
    \E k \in 0..SpaceRun(s, q) : q + k <= Len(s) /\ s[q + k] = "("

\* the lazy group (.*?) from s[q]: the least m such that m characters that are
\* no line break are followed by the tail of the pattern; -1 when there is none
RECURSIVE RefLazyGroup(_, _, _)
RefLazyGroup(s, q, m) ==
    IF RefTailMatches(s, q + m) THEN m
    ELSE IF q + m <= Len(s) /\ IsDot(s[q + m]) THEN RefLazyGroup(s, q, m + 1)
    ELSE -1

\* the greedy whitespace+ from s[p]: n whitespace characters, the longest run
\* first, one given back at a time while the rest of the pattern fails
RECURSIVE RefGreedySpace(_, _, _)
RefGreedySpace(s, p, n) ==
    IF n < 1 THEN NoMatch
    ELSE LET m == RefLazyGroup(s, p + n, 0)
         IN  IF m >= 0
             THEN [ok |-> TRUE, group |-> SubSeq(s, p + n, p + n + m - 1)]
             ELSE RefGreedySpace(s, p, n - 1)

\* the pattern REFERENCES whitespace+ (group) whitespace* ( matched at s[i]
RefMatchAt(s, i) ==
    IF ~LiteralAt(s, i, REFERENCES_KW) THEN NoMatch
    ELSE RefGreedySpace(s, i + Len(REFERENCES_KW), SpaceRun(s, i + Len(REFERENCES_KW)))

\* matches[0] of findall: the match at the leftmost position that has one
RECURSIVE RefFirstMatch(_, _)
RefFirstMatch(s, i) ==
    IF i > Len(s) THEN NoMatch
    ELSE IF RefMatchAt(s, i).ok THEN RefMatchAt(s, i)
    ELSE RefFirstMatch(s, i + 1)

\* index of the first sep in s from position i on, 0 when there is none
RECURSIVE IndexOf(_, _, _)
IndexOf(s, sep, i) ==
    IF i > Len(s) THEN 0
    ELSE IF s[i] = sep THEN i
    ELSE IndexOf(s, sep, i + 1)

\* str.split(sep) for a one-character sep
RECURSIVE Split(_, _)
Split(s, sep) ==
    LET k == IndexOf(s, sep, 1)
    IN  IF k = 0 THEN <<s>>
        ELSE <<SubSeq(s, 1, k - 1)>> \o Split(SubSeq(s, k + 1, Len(s)), sep)

\* input.replace(backtick, "")
strip_backticks(input) == SelectSeq(input, LAMBDA c : c # Backtick)

extract_three_level_identifier_from_constraint_string(input_str) ==
    LET first_match == RefFirstMatch(input_str, 1)
    IN  IF ~first_match.ok THEN Return(PyNone)
        ELSE LET parts == Split(first_match.group, ".")
             IN  IF Len(parts) < 2 THEN Raise("IndexError")
                 ELSE IF Len(parts) < 3 THEN Raise("IndexError")
                 ELSE Return(PyDict([catalog |-> PyStr(strip_backticks(parts[1])),
                                     schema  |-> PyStr(strip_backticks(parts[2])),
                                     table   |-> PyStr(strip_backticks(parts[3]))]))

---------------------------------------------------------------------------
(* _parse_fk_from_constraint_string, build_fk_dict                         *)

\* a lenient parse: a missing name or group is left empty instead of raising
_parse_fk_lenient(constraint_str) ==
    LET referred_table_dict ==
            extract_three_level_identifier_from_constraint_string(constraint_str)
        _extracted == extract_identifier_groups_from_string(constraint_str)
        named == referred_table_dict.kind = "return" /\ referred_table_dict.val # PyNone
    IN  Return(PyDict(
          [constrained_columns |->
               PyList(IF Len(_extracted) >= 1
                      THEN extract_identifiers_from_string(_extracted[1]) ELSE <<>>),
           referred_table |-> IF named THEN referred_table_dict.val.v.table ELSE PyNone,
           referred_columns |->
               PyList(IF Len(_extracted) >= 2
                      THEN extract_identifiers_from_string(_extracted[2]) ELSE <<>>),
           referred_schema |-> IF named THEN referred_table_dict.val.v.schema ELSE PyNone]))

\* subscripting None raises TypeError; _extracted[0] and _extracted[1] raise
\* IndexError when findall gave fewer groups
_parse_fk_from_constraint_string(constraint_str) ==
    LET referred_table_dict ==
            extract_three_level_identifier_from_constraint_string(constraint_str)
    IN  IF referred_table_dict.kind = "raise" THEN referred_table_dict
        ELSE IF referred_table_dict.val = PyNone THEN Raise("TypeError")
        ELSE LET referred_table == referred_table_dict.val.v.table
                 referred_schema == referred_table_dict.val.v.schema
                 _extracted == extract_identifier_groups_from_string(constraint_str)
             IN  IF Len(_extracted) < 1 THEN Raise("IndexError")
                 ELSE IF Len(_extracted) < 2 THEN Raise("IndexError")
                 ELSE LET constrained_columns_str == _extracted[1]
                          referred_columns_str == _extracted[2]
                      IN  Return(PyDict(
                            [constrained_columns |->
                                 PyList(extract_identifiers_from_string(constrained_columns_str)),
                             referred_table |-> referred_table,
                             referred_columns |->
                                 PyList(extract_identifiers_from_string(referred_columns_str)),
                             referred_schema |-> referred_schema]))

\* {**a, **b}: the keys of both, b's value where both have the key
DictMerge(a, b) == b @@ a

EmptyDict == [k \in {} |-> PyNone]

\* the schema of the caller put into the record instead of the parsed one
build_fk_dict_schema_of_caller(fk_name, fk_constraint_string, schema_name_arg) ==
    LET base_fk_dict == _parse_fk_from_constraint_string(fk_constraint_string)
    IN  IF base_fk_dict.kind = "raise" THEN base_fk_dict
        ELSE Return(PyDict(DictMerge(DictMerge([name |-> PyStr(fk_name)],
                                               base_fk_dict.val.v),
                                     [referred_schema |->
                                          IF Truthy(schema_name_arg)
                                          THEN schema_name_arg ELSE PyNone])))

\* the override applied only for None, not for the empty string
build_fk_dict_none_only(fk_name, fk_constraint_string, schema_name_arg) ==
    LET base_fk_dict == _parse_fk_from_constraint_string(fk_constraint_string)
    IN  IF base_fk_dict.kind = "raise" THEN base_fk_dict
        ELSE Return(PyDict(DictMerge(DictMerge([name |-> PyStr(fk_name)],
                                               base_fk_dict.val.v),
                                     IF schema_name_arg = PyNone
                                     THEN [referred_schema |-> PyNone]
                                     ELSE EmptyDict)))

build_fk_dict(fk_name, fk_constraint_string, schema_name_arg) ==
    LET base_fk_dict == _parse_fk_from_constraint_string(fk_constraint_string)
    IN  IF base_fk_dict.kind = "raise" THEN base_fk_dict
        ELSE LET schema_override_dict ==
                     IF ~Truthy(schema_name_arg)
                     THEN [referred_schema |-> PyNone]
                     ELSE EmptyDict
             IN  Return(PyDict(DictMerge(DictMerge([name |-> PyStr(fk_name)],
                                                   base_fk_dict.val.v),
                                         schema_override_dict)))

---------------------------------------------------------------------------
(* _parse_pk_columns_from_constraint_string, build_pk_dict                 *)

\* the columns taken from the first parenthesized group, as for a foreign key
_parse_pk_columns_from_first_group(constraint_str) ==
    LET _extracted == extract_identifier_groups_from_string(constraint_str)
    IN  IF _extracted = <<>> THEN <<>>
        ELSE extract_identifiers_from_string(_extracted[1])

_parse_pk_columns_from_constraint_string(constraint_str) ==
    extract_identifiers_from_string(constraint_str)

build_pk_dict(pk_name, pk_constraint_string) ==
    LET constrained_columns ==
            _parse_pk_columns_from_constraint_string(pk_constraint_string)
    IN  Return(PyDict([constrained_columns |-> PyList(constrained_columns),
                       name |-> PyStr(pk_name)]))

---------------------------------------------------------------------------
(* _match_table_not_found_string                                           *)

DBR_LTE_12_NOT_FOUND_STRING ==
    <<"T", "a", "b", "l", "e", " ", "o", "r", " ", "v", "i", "e", "w", " ",
      "n", "o", "t", " ", "f", "o", "u", "n", "d">>
DBR_GT_12_NOT_FOUND_STRING ==
    <<"T", "A", "B", "L", "E", "_", "O", "R", "_", "V", "I", "E", "W", "_",
      "N", "O", "T", "_", "F", "O", "U", "N", "D">>

\* all() in the place of any()
_match_table_not_found_all(msg) ==
    Return(PyBool(/\ StrContains(DBR_LTE_12_NOT_FOUND_STRING, msg)
                  /\ StrContains(DBR_GT_12_NOT_FOUND_STRING, msg)))

_match_table_not_found_string(msg) ==
    Return(PyBool(\/ StrContains(DBR_LTE_12_NOT_FOUND_STRING, msg)
                  \/ StrContains(DBR_GT_12_NOT_FOUND_STRING, msg)))

---------------------------------------------------------------------------
(* match_dte_rows_by_value: the body of its loop                           *)

\* the match looked for in col_name
RowMatchesColName(match_arg, row_dict) == StrContains(match_arg, row_dict.col_name)

\* match in row_dict["data_type"]
RowMatches(match_arg, row_dict) == StrContains(match_arg, row_dict.data_type)

\* one pass of the loop: the row is appended when it matches
LoopBody(rows, match_arg, row_dict) ==
    IF RowMatches(match_arg, row_dict) THEN Append(rows, row_dict) ELSE rows

FOREIGN_KEY == <<"F", "O", "R", "E", "I", "G", "N", " ", "K", "E", "Y">>
PRIMARY_KEY == <<"P", "R", "I", "M", "A", "R", "Y", " ", "K", "E", "Y">>

---------------------------------------------------------------------------
(* Inputs *)

RECURSIVE Concat(_)
Concat(parts) == IF parts = <<>> THEN <<>> ELSE Head(parts) \o Concat(Tail(parts))

SeqsUpTo(S, n) == UNION {[1..k -> S] : k \in 0..n}

\* free-form strings: backticks around and between word and other characters,
\* and parentheses around and between class and other characters
IdentAlphabet == {Backtick, "a", "_", "-"}
GroupAlphabet == {"(", ")", Backtick, "-"}
FreeStrings == SeqsUpTo(IdentAlphabet, MaxLen) \cup SeqsUpTo(GroupAlphabet, MaxLen)

\* constraint lines, written from a form
\*   FOREIGN KEY (cols1) REFERENCES cat.sch.tbl (cols2)
\* with each name in backticks; every shape but "wf" departs from it in one place
LocalIdents == {<<"p", "_", "1">>, REFERENCES_KW}
ReferredIdents == {<<"x">>, <<"I", "d", "9">>}
Separators == {<<",">>, <<",", " ">>, <<"\n">>}
Catalog == <<"c", "a", "t">>
Schemas == {<<"s", "c", "h">>, <<"s", "2">>}
Tables == {<<"t", "b", "l">>, <<"T", "_", "2">>}

Shapes == {"wf", "newline_after_kw", "no_gap", "no_references", "lower_kw",
           "no_space_after_kw", "one_part", "two_part", "four_part", "unquoted",
           "bad_char", "space_in_name", "dotted_table", "empty_name",
           "newline_in_name", "no_group1", "bad_group1", "no_group2", "bad_group2"}

WellFormedForms ==
    [shape : {"wf"}, cols1 : SeqsUpTo(LocalIdents, MaxCols),
     cols2 : SeqsUpTo(ReferredIdents, MaxCols), sep : Separators,
     sch : Schemas, tbl : Tables]

OtherForms ==
    [shape : Shapes \ {"wf"}, cols1 : [1..1 -> LocalIdents],
     cols2 : [1..1 -> ReferredIdents], sep : {<<",">>},
     sch : {<<"s", "c", "h">>}, tbl : {<<"t", "b", "l">>}]

FkForms == WellFormedForms \cup OtherForms

NoForm == [shape |-> "free", cols1 |-> <<>>, cols2 |-> <<>>, sep |-> <<>>,
           sch |-> <<>>, tbl |-> <<>>]

Quote(id) == <<Backtick>> \o id \o <<Backtick>>

RECURSIVE Join(_, _)
Join(items, sep) ==
    IF items = <<>> THEN <<>>
    ELSE IF Len(items) = 1 THEN Head(items)
    ELSE Head(items) \o sep \o Join(Tail(items), sep)

ColumnList(cols, sep, bad) ==
    <<"(">> \o Join([k \in 1..Len(cols) |-> Quote(cols[k])], sep)
            \o (IF bad THEN <<"-">> ELSE <<>>) \o <<")">>

RenderKeyword(f) ==
    CASE f.shape = "no_references"     -> <<" ">>
      [] f.shape = "lower_kw"          -> <<" ", "r", "e", "f", "e", "r", "e", "n", "c", "e", "s", " ">>
      [] f.shape = "no_space_after_kw" -> <<" ">> \o REFERENCES_KW
      [] f.shape = "newline_after_kw"  -> <<" ">> \o REFERENCES_KW \o <<"\n", " ">>
      [] OTHER                         -> <<" ">> \o REFERENCES_KW \o <<" ">>

RenderName(f) ==
    CASE f.shape = "one_part"        -> Quote(f.tbl)
      [] f.shape = "two_part"        -> Quote(f.sch) \o <<".">> \o Quote(f.tbl)
      [] f.shape = "four_part"       -> Quote(Catalog) \o <<".">> \o Quote(f.sch) \o <<".">>
                                        \o Quote(f.tbl) \o <<".">> \o Quote(<<"u">>)
      [] f.shape = "unquoted"        -> Catalog \o <<".">> \o f.sch \o <<".">> \o f.tbl
      [] f.shape = "bad_char"        -> Quote(Catalog) \o <<".">> \o Quote(f.sch \o <<"-", "x">>)
                                        \o <<".">> \o Quote(f.tbl)
      [] f.shape = "space_in_name"   -> Quote(Catalog) \o <<".">> \o Quote(f.sch) \o <<".">>
                                        \o Quote(f.tbl \o <<" ", "x">>)
      [] f.shape = "dotted_table"    -> Quote(Catalog) \o <<".">> \o Quote(f.sch) \o <<".">>
                                        \o Quote(f.tbl \o <<".", "x">>)
      [] f.shape = "empty_name"      -> <<>>
      [] f.shape = "newline_in_name" -> Quote(Catalog) \o <<".">> \o Quote(f.sch) \o <<"\n", ".">>
                                        \o Quote(f.tbl)
      [] OTHER                       -> Quote(Catalog) \o <<".">> \o Quote(f.sch) \o <<".">>
                                        \o Quote(f.tbl)

Render(f) ==
    FOREIGN_KEY \o <<" ">>
    \o (IF f.shape = "no_group1" THEN <<>>
        ELSE ColumnList(f.cols1, f.sep, f.shape = "bad_group1"))
    \o RenderKeyword(f)
    \o RenderName(f)
    \o (IF f.shape = "no_gap" THEN <<>> ELSE <<" ">>)
    \o (IF f.shape = "no_group2" THEN <<>>
        ELSE ColumnList(f.cols2, f.sep, f.shape = "bad_group2"))

Names == {<<"f", "k", "1">>, <<"k", "_", "2">>}
SchemaNames == {PyNone, PyStr(<<>>), PyStr(<<"s", "c", "h">>)}

\* rows of DESCRIBE TABLE EXTENDED
Rows ==
    {[col_name |-> <<"c", "1">>,
      data_type |-> FOREIGN_KEY \o <<" ", "(">> \o Quote(<<"a">>) \o <<")">>],
     [col_name |-> <<"c", "2">>,
      data_type |-> PRIMARY_KEY \o <<" ", "(">> \o Quote(<<"i", "d">>) \o <<")">>],
     [col_name |-> <<"c", "3">>, data_type |-> <<"i", "n", "t">>],
     [col_name |-> <<"c", "4">>,
      data_type |-> <<"f", "o", "r", "e", "i", "g", "n", " ", "k", "e", "y">>],
     [col_name |-> FOREIGN_KEY, data_type |-> <<"s", "t", "r", "i", "n", "g">>]}
Matches == {FOREIGN_KEY, <<"K", "E", "Y">>, <<"i", "n">>, <<>>, <<".">>}

\* fragments of error messages
Chunks ==
    {DBR_LTE_12_NOT_FOUND_STRING, DBR_GT_12_NOT_FOUND_STRING,
     <<"t", "a", "b", "l", "e", " ", "o", "r", " ", "v", "i", "e", "w", " ",
       "n", "o", "t", " ", "f", "o", "u", "n", "d">>,
     <<"T", "a", "b", "l", "e", " ", "o", "r", " ", "v", "i", "e", "w">>,
     <<" ", "n", "o", "t", " ", "f", "o", "u", "n", "d">>,
     <<"T", "A", "B", "L", "E", "_", "O", "R", "_", "V", "I", "E", "W">>,
     <<"_", "N", "O", "T", "_", "F", "O", "U", "N", "D">>,
     <<"S", "y", "n", "t", "a", "x", " ", "e", "r", "r", "o", "r">>,
     <<":", " ">>}

---------------------------------------------------------------------------
(* The state machine: one call of one function *)

InitCommon ==
    /\ pc = "start"
    /\ fn = "none"
    /\ name = <<>>
    /\ schema_name = PyNone
    /\ match = <<>>
    /\ idx = 0
    /\ output_rows = <<>>
    /\ ret = Pending

\* a free-form string
InitStr ==
    /\ InitCommon
    /\ form = NoForm
    /\ line \in FreeStrings
    /\ dte_output = <<>>
    /\ message = <<>>

\* a constraint line
InitFk ==
    /\ InitCommon
    /\ form \in FkForms
    /\ line = Render(form)
    /\ dte_output = <<>>
    /\ message = <<>>

\* the output of DESCRIBE TABLE EXTENDED
InitRows ==
    /\ InitCommon
    /\ form = NoForm
    /\ line = <<>>
    /\ dte_output \in SeqsUpTo(Rows, MaxRows)
    /\ message = <<>>

\* an error message
InitMsg ==
    /\ InitCommon
    /\ form = NoForm
    /\ line = <<>>
    /\ dte_output = <<>>
    /\ message \in {Concat(c) : c \in SeqsUpTo(Chunks, MaxChunks)}

CallExtractIdentifiers ==
    /\ pc = "start"
    /\ fn' = "extract_identifiers_from_string"
    /\ ret' = Return(PyList(extract_identifiers_from_string(line)))
    /\ pc' = "done"
    /\ UNCHANGED <<form, line, name, schema_name, dte_output, match, idx,
                   output_rows, message>>

CallExtractGroups ==
    /\ pc = "start"
    /\ fn' = "extract_identifier_groups_from_string"
    /\ ret' = Return(PyList(extract_identifier_groups_from_string(line)))
    /\ pc' = "done"
    /\ UNCHANGED <<form, line, name, schema_name, dte_output, match, idx,
                   output_rows, message>>

CallExtractThreeLevel ==
    /\ pc = "start"
    /\ fn' = "extract_three_level_identifier_from_constraint_string"
    /\ ret' = extract_three_level_identifier_from_constraint_string(line)
    /\ pc' = "done"
    /\ UNCHANGED <<form, line, name, schema_name, dte_output, match, idx,
                   output_rows, message>>

CallBuildFk ==
    /\ pc = "start"
    /\ \E fk_name \in Names, sn \in SchemaNames :
          /\ name' = fk_name
          /\ schema_name' = sn
          /\ ret' = build_fk_dict(fk_name, line, sn)
    /\ fn' = "build_fk_dict"
    /\ pc' = "done"
    /\ UNCHANGED <<form, line, dte_output, match, idx, output_rows, message>>

CallBuildPk ==
    /\ pc = "start"
    /\ \E pk_name \in Names :
          /\ name' = pk_name
          /\ ret' = build_pk_dict(pk_name, line)
    /\ fn' = "build_pk_dict"
    /\ pc' = "done"
    /\ UNCHANGED <<form, line, schema_name, dte_output, match, idx, output_rows,
                   message>>

\* match_dte_rows_by_value is entered: output_rows = []
CallMatchDteRows ==
    /\ pc = "start"
    /\ fn' = "match_dte_rows_by_value"
    /\ \E m \in Matches : match' = m
    /\ output_rows' = <<>>
    /\ idx' = 1
    /\ pc' = "loop"
    /\ UNCHANGED <<form, line, name, schema_name, dte_output, message, ret>>

\* get_fk_strings_from_dte_output enters it with "FOREIGN KEY"
CallGetFkStrings ==
    /\ pc = "start"
    /\ fn' = "get_fk_strings_from_dte_output"
    /\ match' = FOREIGN_KEY
    /\ output_rows' = <<>>
    /\ idx' = 1
    /\ pc' = "loop"
    /\ UNCHANGED <<form, line, name, schema_name, dte_output, message, ret>>

\* get_pk_strings_from_dte_output enters it with "PRIMARY KEY"
CallGetPkStrings ==
    /\ pc = "start"
    /\ fn' = "get_pk_strings_from_dte_output"
    /\ match' = PRIMARY_KEY
    /\ output_rows' = <<>>
    /\ idx' = 1
    /\ pc' = "loop"
    /\ UNCHANGED <<form, line, name, schema_name, dte_output, message, ret>>

\* for row_dict in dte_output
LoopRow ==
    /\ pc = "loop"
    /\ idx <= Len(dte_output)
    /\ output_rows' = LoopBody(output_rows, match, dte_output[idx])
    /\ idx' = idx + 1
    /\ UNCHANGED <<pc, fn, form, line, name, schema_name, dte_output, match,
                   message, ret>>

\* return output_rows, which the two callers return as it is
ReturnRows ==
    /\ pc = "loop"
    /\ idx > Len(dte_output)
    /\ ret' = Return(PyList(output_rows))
    /\ pc' = "done"
    /\ UNCHANGED <<fn, form, line, name, schema_name, dte_output, match, idx,
                   output_rows, message>>

CallMatchTableNotFound ==
    /\ pc = "start"
    /\ fn' = "_match_table_not_found_string"
    /\ ret' = _match_table_not_found_string(message)
    /\ pc' = "done"
    /\ UNCHANGED <<form, line, name, schema_name, dte_output, match, idx,
                   output_rows, message>>

NextStr == CallExtractIdentifiers \/ CallExtractGroups \/ CallBuildPk

NextFk == CallBuildFk \/ CallExtractThreeLevel \/ CallExtractGroups \/ CallBuildPk

NextRows ==
    CallMatchDteRows \/ CallGetFkStrings \/ CallGetPkStrings \/ LoopRow \/ ReturnRows

NextMsg == CallMatchTableNotFound

NextGroups == CallExtractGroups \/ CallBuildFk

\* the extractors and the primary-key assembler on free-form strings
SpecStr == InitStr /\ [][NextStr]_vars

\* the foreign-key assembler and what it calls on constraint lines
SpecFk == InitFk /\ [][NextFk]_vars

\* the row filter
SpecRows == InitRows /\ [][NextRows]_vars

\* the error-message matcher
SpecMsg == InitMsg /\ [][NextMsg]_vars

\* the group extractor and the foreign-key assembler, on free-form strings and
\* on constraint lines
InitGroups == InitStr \/ InitFk

SpecGroups == InitGroups /\ [][NextGroups]_vars

Init == InitStr \/ InitFk \/ InitRows \/ InitMsg

Next == NextStr \/ NextFk \/ NextRows \/ NextMsg

Spec == Init /\ [][Next]_vars

---------------------------------------------------------------------------
(* What the claims speak of, stated on the text itself *)

Done(function) == pc = "done" /\ fn = function

\* sub occurs in s: at the head of s, or in s without its head
IsPrefix(sub, s) == Len(sub) <= Len(s) /\ \A k \in 1..Len(sub) : s[k] = sub[k]

RECURSIVE Occurs(_, _)
Occurs(sub, s) ==
    IF Len(s) < Len(sub) THEN FALSE
    ELSE IsPrefix(sub, s) \/ Occurs(sub, Tail(s))

\* the elements of a set of spans <<i, j>> from left to right
RECURSIVE LeftToRight(_)
LeftToRight(spans) ==
    IF spans = {} THEN <<>>
    ELSE LET first == CHOOSE c \in spans : \A d \in spans : c[1] <= d[1]
         IN  <<first>> \o LeftToRight(spans \ {first})

\* the places <<i, j>> where s holds a backtick, one or more of [A-Za-z0-9_],
\* and a backtick
TokenSpans(s) ==
    {c \in (1..Len(s)) \X (1..Len(s)) :
        /\ c[2] > c[1] + 1
        /\ s[c[1]] = Backtick
        /\ s[c[2]] = Backtick
        /\ \A k \in (c[1] + 1)..(c[2] - 1) : IsWord(s[k])}

\* the tokens a left-to-right scan takes: a token is taken unless it overlaps
\* a taken token that starts before it
TakenSpans(s) ==
    CHOOSE T \in SUBSET TokenSpans(s) :
        \A c \in TokenSpans(s) :
            c \in T <=> ~\E d \in T : d[1] < c[1] /\ c[1] <= d[2]

\* the names of the taken tokens, without their backticks, in order of appearance
TokenNames(s) ==
    LET spans == LeftToRight(TakenSpans(s))
    IN  [k \in 1..Len(spans) |-> SubSeq(s, spans[k][1] + 1, spans[k][2] - 1)]

---------------------------------------------------------------------------
\* C8: on every string extract_identifiers_from_string returns, and what it
\* returns is the list of the names of the backtick-quoted [A-Za-z0-9_]+
\* tokens that a left-to-right scan takes without overlap, in order of
\* appearance and duplicates kept; it is the empty list when there is none.
C8_IdentifiersAreTheTokens ==
    Done("extract_identifiers_from_string") =>
        /\ ret = Return(PyList(TokenNames(line)))
        /\ (TokenSpans(line) = {} => ret.val.v = <<>>)

\* a string with two tokens that share a backtick: the scan takes the first
\* and not the second
C8_Witness ==
    /\ Done("extract_identifiers_from_string")
    /\ Cardinality(TokenSpans(line)) = 2
    /\ Cardinality(TakenSpans(line)) = 1
    /\ ret.kind = "return"
    /\ Len(ret.val.v) = 1

---------------------------------------------------------------------------
\* C7: for every pk_name and every string build_pk_dict returns a record with
\* exactly the fields name = pk_name and constrained_columns = the names of the
\* backtick-quoted tokens of the string in order; with no token the list is
\* empty and the call still returns.
C7_PkDictIsNameAndTokens ==
    Done("build_pk_dict") =>
        /\ ret.kind = "return"
        /\ ret.val.t = "dict"
        /\ DOMAIN ret.val.v = {"name", "constrained_columns"}
        /\ ret.val.v.name = PyStr(name)
        /\ ret.val.v.constrained_columns = PyList(TokenNames(line))
        /\ (TokenSpans(line) = {} => ret.val.v.constrained_columns = PyList(<<>>))

\* a string with two different tokens, both in the record, in order
C7_Witness ==
    /\ Done("build_pk_dict")
    /\ ret.kind = "return"
    /\ Len(ret.val.v.constrained_columns.v) = 2
    /\ ret.val.v.constrained_columns.v[1] = <<"a">>
    /\ ret.val.v.constrained_columns.v[2] = <<"_">>
    /\ ret.val.v.name = PyStr(name)

---------------------------------------------------------------------------
(* Constraint lines, stated on the text itself *)

FkFields == {"name", "constrained_columns", "referred_table", "referred_columns",
             "referred_schema"}

OnlyWordChars(id) == \A k \in 1..Len(id) : IsWord(id[k])

\* the places <<i, j>> of the parenthesized groups: an open parenthesis, a close
\* parenthesis, and between them only backticks, [A-Za-z0-9_], commas, whitespace
GroupSpans(s) ==
    {c \in (1..Len(s)) \X (1..Len(s)) :
        /\ s[c[1]] = "("
        /\ s[c[2]] = ")"
        /\ c[1] < c[2]
        /\ \A k \in (c[1] + 1)..(c[2] - 1) : IsGroupChar(s[k])}

GroupTexts(s) ==
    LET spans == LeftToRight(GroupSpans(s))
    IN  [k \in 1..Len(spans) |-> SubSeq(s, spans[k][1], spans[k][2])]

\* s holds REFERENCES at i and an open parenthesis at j, and between them
\* whitespace, then text on one line, then whitespace or nothing
RefClauseAt(s, i, j) ==
    /\ LiteralAt(s, i, REFERENCES_KW)
    /\ j > i + Len(REFERENCES_KW)
    /\ j <= Len(s)
    /\ s[j] = "("
    /\ \E a \in (i + Len(REFERENCES_KW) + 1)..j :
          /\ \A k \in (i + Len(REFERENCES_KW))..(a - 1) : IsSpace(s[k])
          /\ \E b \in a..j :
                /\ \A k \in a..(b - 1) : s[k] # "\n"
                /\ \A k \in b..(j - 1) : IsSpace(s[k])

RefClauseFrom(s, i) ==
    LiteralAt(s, i, REFERENCES_KW) /\ \E j \in 1..Len(s) : RefClauseAt(s, i, j)

HasRefClause(s) == \E i \in 1..Len(s) : RefClauseFrom(s, i)

\* the first REFERENCES that has a clause, and the open parenthesis following it
FirstRefClause(s) ==
    LET i == CHOOSE i \in 1..Len(s) :
                 /\ RefClauseFrom(s, i)
                 /\ \A h \in 1..(i - 1) : ~RefClauseFrom(s, h)
        j == CHOOSE j \in 1..Len(s) :
                 /\ RefClauseAt(s, i, j)
                 /\ \A h \in 1..(j - 1) : ~RefClauseAt(s, i, h)
    IN  <<i, j>>

\* the referenced name: the text between them, without the whitespace around it
ReferencedName(s) ==
    LET c == FirstRefClause(s)
        between == SubSeq(s, c[1] + Len(REFERENCES_KW), c[2] - 1)
        inked == {k \in 1..Len(between) : ~IsSpace(between[k])}
    IN  IF inked = {} THEN <<>>
        ELSE SubSeq(between,
                    CHOOSE k \in inked : \A h \in inked : k <= h,
                    CHOOSE k \in inked : \A h \in inked : k >= h)

DotSeparatedParts(text) == 1 + Cardinality({k \in 1..Len(text) : text[k] = "."})

\* exactly three segments, each in backticks, with dots between them
IsThreeQuotedSegments(text) ==
    /\ DotSeparatedParts(text) = 3
    /\ Cardinality({k \in 1..Len(text) : text[k] = Backtick}) = 6
    /\ text[1] = Backtick
    /\ text[Len(text)] = Backtick
    /\ \A k \in 1..Len(text) :
          text[k] = "." => text[k - 1] = Backtick /\ text[k + 1] = Backtick

---------------------------------------------------------------------------
\* C1: for a line FOREIGN KEY (cols1) REFERENCES cat.sch.tbl (cols2), every
\* name in backticks, every fk_name and every non-empty schema_name,
\* build_fk_dict returns a record with exactly the five fields name = fk_name,
\* constrained_columns = cols1, referred_columns = cols2, referred_table =
\* tbl and referred_schema = sch, the schema of the line, also when schema_name
\* is another schema.
C1_FkDictOfWellFormedLine ==
    (Done("build_fk_dict") /\ form.shape = "wf" /\ Truthy(schema_name)) =>
        /\ ret.kind = "return"
        /\ ret.val.t = "dict"
        /\ DOMAIN ret.val.v = FkFields
        /\ ret.val.v.name = PyStr(name)
        /\ ret.val.v.constrained_columns = PyList(form.cols1)
        /\ ret.val.v.referred_columns = PyList(form.cols2)
        /\ ret.val.v.referred_table = PyStr(form.tbl)
        /\ ret.val.v.referred_schema = PyStr(form.sch)

\* two columns on each side, and a schema_name that is not the line's schema
C1_Witness ==
    /\ Done("build_fk_dict")
    /\ form.shape = "wf"
    /\ Len(form.cols1) = 2
    /\ Len(form.cols2) = 2
    /\ form.cols1[1] # form.cols1[2]
    /\ Truthy(schema_name)
    /\ schema_name.v # form.sch
    /\ ret.kind = "return"
    /\ ret.val.v.referred_schema = PyStr(form.sch)
    /\ ret.val.v.constrained_columns = PyList(form.cols1)

---------------------------------------------------------------------------
\* C2: when build_fk_dict returns for a falsy schema_name (None or the empty
\* string), referred_schema is None whatever schema the line holds, and each
\* other field is the field returned for the same line and name with a
\* non-empty schema_name.
C2_FalsySchemaNullsReferredSchema ==
    (Done("build_fk_dict") /\ ~Truthy(schema_name) /\ ret.kind = "return") =>
        /\ ret.val.v.referred_schema = PyNone
        /\ \A sn \in {x \in SchemaNames : Truthy(x)} :
              LET other == build_fk_dict(name, line, sn)
              IN  /\ other.kind = "return"
                  /\ other.val.v.referred_schema # PyNone
                  /\ \A k \in FkFields \ {"referred_schema"} :
                        ret.val.v[k] = other.val.v[k]
        /\ (form.shape = "wf" =>
              /\ DOMAIN ret.val.v = FkFields
              /\ ret.val.v.name = PyStr(name)
              /\ ret.val.v.constrained_columns = PyList(form.cols1)
              /\ ret.val.v.referred_columns = PyList(form.cols2)
              /\ ret.val.v.referred_table = PyStr(form.tbl))

\* the empty string as schema_name, on a line that names a schema
C2_Witness ==
    /\ Done("build_fk_dict")
    /\ schema_name = PyStr(<<>>)
    /\ form.shape = "wf"
    /\ form.sch = <<"s", "c", "h">>
    /\ Len(form.cols1) = 1
    /\ ret.kind = "return"
    /\ ret.val.v.referred_schema = PyNone
    /\ ret.val.v.referred_table = PyStr(form.tbl)

---------------------------------------------------------------------------
\* C3: build_fk_dict returns no partial record: on a line with no REFERENCES
\* clause, or whose referenced name has fewer than three dot-separated parts,
\* or with fewer than two parenthesized groups, the call raises; and a record
\* it returns has all five fields, each with a value of its kind.
C3_NoPartialFkDict ==
    Done("build_fk_dict") =>
        /\ (\/ ~HasRefClause(line)
            \/ DotSeparatedParts(ReferencedName(line)) < 3
            \/ Cardinality(GroupSpans(line)) < 2) => ret.kind = "raise"
        /\ ret.kind = "return" =>
              /\ ret.val.t = "dict"
              /\ DOMAIN ret.val.v = FkFields
              /\ ret.val.v.name.t = "str"
              /\ ret.val.v.constrained_columns.t = "list"
              /\ ret.val.v.referred_columns.t = "list"
              /\ ret.val.v.referred_table.t = "str"
              /\ ret.val.v.referred_schema.t \in {"str", "None"}

\* a line with its clause and its three-part name, but one group: IndexError
C3_Witness ==
    /\ Done("build_fk_dict")
    /\ ret = Raise("IndexError")
    /\ Cardinality(GroupSpans(line)) = 1
    /\ HasRefClause(line)
    /\ DotSeparatedParts(ReferencedName(line)) = 3

---------------------------------------------------------------------------
\* C10: on a string with two parenthesized groups
\* extract_identifier_groups_from_string returns exactly these two, the left
\* one first; and in the foreign-key assembler the first is the constrained
\* and the second the referred column list of the line, so that neither list
\* of the record holds a column of the other list of the line.
C10_GroupsLeftToRight ==
    /\ (Done("extract_identifier_groups_from_string")
          /\ Cardinality(GroupSpans(line)) = 2) =>
            /\ ret.kind = "return"
            /\ Len(ret.val.v) = 2
            /\ ret.val.v = GroupTexts(line)
    /\ (Done("build_fk_dict") /\ form.shape = "wf") =>
            /\ ret.kind = "return"
            /\ ret.val.v.constrained_columns = PyList(form.cols1)
            /\ ret.val.v.referred_columns = PyList(form.cols2)
            /\ \A k \in 1..Len(ret.val.v.constrained_columns.v) :
                  ret.val.v.constrained_columns.v[k] \notin ReferredIdents
            /\ \A k \in 1..Len(ret.val.v.referred_columns.v) :
                  ret.val.v.referred_columns.v[k] \notin LocalIdents

\* a line with two local columns and one referred column
C10_Witness ==
    /\ Done("build_fk_dict")
    /\ form.shape = "wf"
    /\ Len(form.cols1) = 2
    /\ Len(form.cols2) = 1
    /\ Cardinality(GroupSpans(line)) = 2
    /\ ret.kind = "return"
    /\ Len(ret.val.v.constrained_columns.v) = 2
    /\ Len(ret.val.v.referred_columns.v) = 1

---------------------------------------------------------------------------
\* C4: extract_three_level_identifier_from_constraint_string returns a
\* (catalog, schema, table) only when the text between the first REFERENCES
\* and the open parenthesis after it is exactly three dot-separated segments
\* in backticks; on any other text it raises or returns None; and without a
\* REFERENCES clause it returns None and does not raise.
C4_OnlyThreeQuotedSegments ==
    Done("extract_three_level_identifier_from_constraint_string") =>
        /\ (ret.kind = "return" /\ ret.val # PyNone) =>
              /\ HasRefClause(line)
              /\ IsThreeQuotedSegments(ReferencedName(line))
        /\ ~HasRefClause(line) => ret = Return(PyNone)

---------------------------------------------------------------------------
\* C5: every identifier of a returned record holds only [A-Za-z0-9_]: the
\* columns, the table and the schema (when not None) of build_fk_dict, the
\* columns of build_pk_dict, and the catalog, schema and table of the
\* qualified-name extractor.
C5_IdentifiersHoldOnlyWordChars ==
    /\ (Done("build_fk_dict") /\ ret.kind = "return") =>
          /\ \A k \in 1..Len(ret.val.v.constrained_columns.v) :
                OnlyWordChars(ret.val.v.constrained_columns.v[k])
          /\ \A k \in 1..Len(ret.val.v.referred_columns.v) :
                OnlyWordChars(ret.val.v.referred_columns.v[k])
          /\ OnlyWordChars(ret.val.v.referred_table.v)
          /\ ret.val.v.referred_schema # PyNone =>
                OnlyWordChars(ret.val.v.referred_schema.v)
    /\ (Done("build_pk_dict") /\ ret.kind = "return") =>
          \A k \in 1..Len(ret.val.v.constrained_columns.v) :
              OnlyWordChars(ret.val.v.constrained_columns.v[k])
    /\ (Done("extract_three_level_identifier_from_constraint_string")
          /\ ret.kind = "return" /\ ret.val # PyNone) =>
          /\ OnlyWordChars(ret.val.v.catalog.v)
          /\ OnlyWordChars(ret.val.v.schema.v)
          /\ OnlyWordChars(ret.val.v.table.v)

---------------------------------------------------------------------------
---------------------------------------------------------------------------
\* C9: _match_table_not_found_string returns True when the message holds
\* "Table or view not found" or "TABLE_OR_VIEW_NOT_FOUND", letter case as
\* written, and False for every other message.
C9_TrueIffEitherSubstring ==
    Done("_match_table_not_found_string") =>
        ret = Return(PyBool(
                \/ Occurs(<<"T", "a", "b", "l", "e", " ", "o", "r", " ", "v", "i", "e",
                            "w", " ", "n", "o", "t", " ", "f", "o", "u", "n", "d">>,
                          message)
                \/ Occurs(<<"T", "A", "B", "L", "E", "_", "O", "R", "_", "V", "I", "E",
                            "W", "_", "N", "O", "T", "_", "F", "O", "U", "N", "D">>,
                          message)))

\* a message that holds the newer string only, behind other text
C9_Witness ==
    /\ Done("_match_table_not_found_string")
    /\ ret = Return(PyBool(TRUE))
    /\ ~StrContains(DBR_LTE_12_NOT_FOUND_STRING, message)
    /\ StrContains(DBR_GT_12_NOT_FOUND_STRING, message)
    /\ ~IsPrefix(DBR_GT_12_NOT_FOUND_STRING, message)

=============================================================================
